---- MODULE Spec2Model ----
(***************************************************************************)
(* Model of interpreter.cc: the brainfuck interpreter (bfInterpret), the   *)
(* x86-64 code generator (bfJITCompile), the loader (setupExecutableMem)   *)
(* and the processor executing the generated bytes.                        *)
(*                                                                         *)
(* One behaviour is one program text and one input stream, run first in    *)
(* --jit mode and then, as a second invocation on a fresh tape and the     *)
(* same input, in interpreted mode.                                        *)
(*                                                                         *)
(* Characters are one-character strings; NUL stands for '\0'.  Bytes are   *)
(* integers 0..255.  Positions in the program text are 1-based indices     *)
(* (a C pointer program+k is index k+1); offsets in the instruction        *)
(* buffer are 0-based, as in the source (machineCode.size()).              *)
(***************************************************************************)
EXTENDS Integers, Sequences, FiniteSets, TLC

\* ------------------------------------------------------------------ constants

TAPE_SIZE == 30000
MAX_NESTING == 100
\* The address of bfState::tape (state->ptr at construction).  Any address
\* below 2^31 - TAPE_SIZE would do; its upper four bytes are then zero.
TapeBase == 1048576
\* The address lea 0x7(%rip) computes in setupExecutableMem.
RetAddr == 4242
\* getpagesize()
PageSize == 4096

\* ------------------------------------------------------------------ bounds

\* Garbage bytes that may follow the program's storage before a zero byte.
MaxTail == 1
\* Longest program of the exhaustively enumerated families.
MaxLen == 3
\* Deepest nest of the Nest family.
MaxNest == 13
\* Saturation of the ghost counter nsub.
CountCap == 256
\* A run is followed while it has written at most MaxOut bytes and its cursor
\* is within MaxCell cells of the tape's first cell.
MaxOut == 3
MaxCell == 600

\* ------------------------------------------------------------------ characters

NUL == "NUL"
Instr == {"+", "-", "<", ">", ",", ".", "[", "]"}
\* What a byte outside the vector may hold: any instruction, some other
\* character, or zero.
Garbage == Instr \cup {"x"}
Unread == <<"?">>

Rep(c, n) == [i \in 1..n |-> c]

RECURSIVE SeqsUpTo(_, _)
SeqsUpTo(S, n) ==
  IF n = 0 THEN {<<>>}
  ELSE LET R == SeqsUpTo(S, n - 1)
       IN R \cup {Append(r, c) : r \in {q \in R : Len(q) = n - 1}, c \in S}

\* The memory after the vector's last element, as far as a scan can get:
\* up to MaxTail garbage characters and then a zero byte.
Tails == {Append(g, NUL) : g \in SeqsUpTo(Garbage, MaxTail)}

\* ------------------------------------------------------------------ state

VARIABLES
  program,      \* std::vector<char> v: the loaded program text
  stdin0,       \* the input stream both invocations start with
  past,         \* memory after v's storage once read (Unread before)
  phase,        \* "compile" | "exec" | "interp"
  tape,         \* bfState::tape, the non-zero cells only (index -> 1..255)
  input,        \* bytes still unread on standard input
  output,       \* bytes written to standard output
  \* bfInterpret
  ip,           \* const char* program (index of the next character)
  ptr,          \* state->ptr as a cell index
  loops,        \* loops[0..nloops-1]
  nskip,
  ist,          \* "idle" | "running" | "returned" | "terminated" | "oob"
  strayed,      \* ghost: the interpreter's cursor has been outside the tape
  skipFrom,     \* ghost: the [ that began the suppression, and the state there
  jResult,      \* what the --jit invocation left: its end, output, tape, cursor
  \* bfJITCompile
  tok,
  machineCode,
  jmpLocIndex,
  tokAt,        \* ghost: token index -> machineCode.size() before its case
  garbled,      \* ghost: a scan counted a character outside the vector
  lastRun,      \* ghost: the run the last + - < > case coalesced
  emptyRead,    \* ghost: jmpLocIndex.back() was evaluated on an empty vector
  jst,          \* "idle" | "codegen" | "overrun" | "segv" | "wild" | "copyfault"
                \* | "running" | "returned" | "fault" | "oob"
  \* the processor
  rip, rbx, regs, zf, hostStack,
  nret,         \* ghost: times control went back to the host
  nsub,         \* ghost: subtract operations executed in this invocation
  \* second round (whitespace comparison)
  variant, round, saved

vars == <<program, stdin0, past, phase, tape, input, output, ip, ptr, loops,
          nskip, ist, strayed, skipFrom, jResult, tok, machineCode, jmpLocIndex, tokAt, garbled,
          lastRun, emptyRead, jst, rip, rbx, regs, zf, hostStack, nret, nsub,
          variant, round, saved>>

inputVars == <<program, stdin0, variant, round, saved>>
interpVars == <<ip, ptr, loops, nskip, ist, strayed, skipFrom>>
jitVars == <<tok, machineCode, jmpLocIndex, tokAt, garbled, lastRun, emptyRead>>
cpuVars == <<rip, rbx, regs, zf, hostStack, nret>>

\* ------------------------------------------------------------------ memory

\* The tape: a cell that is not in the domain holds 0.
InTape(i) == i >= 0 /\ i < TAPE_SIZE
Cell(t, i) == IF i \in DOMAIN t THEN t[i] ELSE 0
SetCell(t, i, v) ==
  IF v = 0 THEN [c \in (DOMAIN t) \ {i} |-> t[c]]
  ELSE [c \in (DOMAIN t) \cup {i} |-> IF c = i THEN v ELSE t[c]]
EmptyTape == [c \in {} |-> 0]

\* No suppression is under way.
NoSkip ==
  [at |-> 0, depth |-> 0, tape |-> EmptyTape, ptr |-> 0, input |-> <<>>,
   output |-> <<>>]

\* The tails a read from index i on may find past the vector: the one already
\* seen, or any; a read that a different character of the program stops
\* before the vector's end finds none.
PastChoices(i) ==
  IF past # Unread THEN {past}
  ELSE IF \A k \in i..Len(program) : program[k] = program[i] THEN Tails
  ELSE {<<NUL>>}

\* *(v.data() + i - 1) with t the memory after the vector.
Mem(t, i) ==
  IF i <= Len(program) THEN program[i]
  ELSE IF i <= Len(program) + Len(t) THEN t[i - Len(program)]
  ELSE NUL

\* for (n = 0; *p == c; ++n, ++p);  from index i: the scan stops at the first
\* character that is not c (Mem is NUL from the end of t on, and c is not NUL).
RunLen(t, i, c) ==
  LET stop == CHOOSE j \in i..(Len(program) + Len(t) + 1 + i) :
                /\ Mem(t, j) # c
                /\ \A k \in i..(j - 1) : Mem(t, k) = c
  IN stop - i

Min(a, b) == IF a < b THEN a ELSE b

\* The bound on the runs the model follows, c being the cursor.
Followed(c) == Len(output) <= MaxOut /\ c >= -MaxCell /\ c <= MaxCell

\* ------------------------------------------------------------------ bfInterpret

\* Variants of the tests and updates below, each with one plausible slip.
\* A test that lets every step through.
UnsuppressedAlways(skip) == TRUE
\* The nesting test one entry late.
StackFullLate(n) == n = MAX_NESTING + 1
\* A ] that never goes back to its [.
InterpCloseIpOnce(cell, top, next) == next
\* A ] that pops whatever the cell holds.
InterpClosePopAlways(cell, stack) == SubSeq(stack, 1, Len(stack) - 1)
\* A [ that counts only when nothing is suppressed yet.
InterpOpenSkipOnce(cell, skip) == IF cell = 0 /\ skip = 0 THEN 1 ELSE skip
\* A ] that leaves the suppression depth as it is.
InterpCloseSkipNever(skip) == skip

\* if (!nskip)
Unsuppressed(skip) == skip = 0
\* case '[': if (nloops == MAX_NESTING) std::terminate();
StackFull(n) == n = MAX_NESTING
\* case ']': if (*state->ptr) program = loops[nloops - 1];
InterpCloseIp(cell, top, next) == IF cell # 0 THEN top ELSE next
\* case ']': else --nloops;
InterpClosePop(cell, stack) ==
  IF cell # 0 THEN stack ELSE SubSeq(stack, 1, Len(stack) - 1)
\* case '[': if (!*state->ptr) ++nskip;
InterpOpenSkip(cell, skip) == IF cell = 0 THEN skip + 1 ELSE skip
\* case ']': if (nskip) --nskip;
InterpCloseSkip(skip) == IF skip # 0 THEN skip - 1 ELSE skip
\* static_cast<unsigned char>(std::getchar()): EOF (-1) becomes 255
GetChar(in) == IF in = <<>> THEN 255 ELSE Head(in)
AfterGetChar(in) == IF in = <<>> THEN in ELSE Tail(in)
\* *state->ptr += n;  *state->ptr -= n;  on an unsigned char
CellAdd(v, n) == (v + n) % 256
CellSub(v, n) == (v + 256 - (n % 256)) % 256

\* One iteration of while(true) { switch(*program++) ... }.
InterpStep ==
  /\ phase = "interp"
  /\ ist = "running"
  /\ Followed(ptr)
  /\ \E t \in PastChoices(ip) :
       LET c    == Mem(t, ip)
           n    == 1 + RunLen(t, ip + 1, c)
           isRun == c \in {"<", ">", "+", "-", " "}
           next == IF isRun THEN ip + n ELSE ip + 1
           \* the last index this iteration reads
           lastRead == IF isRun THEN ip + n ELSE ip
           derefs == \/ (c \in {"+", "-", ",", "."} /\ Unsuppressed(nskip))
                     \/ (c = "[" /\ ~StackFull(Len(loops)))
                     \/ (c = "]" /\ Len(loops) # 0)
           cell == Cell(tape, ptr)
       IN
       /\ past' = IF lastRead > Len(program) THEN t ELSE past
       /\ IF derefs /\ ~InTape(ptr)
          THEN /\ ist' = "oob"
               /\ ip' = ip + 1
               /\ UNCHANGED <<ptr, tape, input, output, loops, nskip, nsub>>
          ELSE
          CASE c = "<" ->
                 /\ ptr' = IF Unsuppressed(nskip) THEN ptr - n ELSE ptr
                 /\ ip' = next
                 /\ UNCHANGED <<tape, input, output, loops, nskip, ist, nsub>>
            [] c = ">" ->
                 /\ ptr' = IF Unsuppressed(nskip) THEN ptr + n ELSE ptr
                 /\ ip' = next
                 /\ UNCHANGED <<tape, input, output, loops, nskip, ist, nsub>>
            [] c = "+" ->
                 /\ tape' = IF Unsuppressed(nskip)
                            THEN SetCell(tape, ptr, CellAdd(cell, n)) ELSE tape
                 /\ ip' = next
                 /\ UNCHANGED <<ptr, input, output, loops, nskip, ist, nsub>>
            [] c = "-" ->
                 /\ tape' = IF Unsuppressed(nskip)
                            THEN SetCell(tape, ptr, CellSub(cell, n)) ELSE tape
                 /\ nsub' = IF Unsuppressed(nskip) THEN Min(nsub + 1, CountCap) ELSE nsub
                 /\ ip' = next
                 /\ UNCHANGED <<ptr, input, output, loops, nskip, ist>>
            [] c = "," ->
                 /\ tape' = IF Unsuppressed(nskip)
                            THEN SetCell(tape, ptr, GetChar(input)) ELSE tape
                 /\ input' = IF Unsuppressed(nskip) THEN AfterGetChar(input) ELSE input
                 /\ ip' = next
                 /\ UNCHANGED <<ptr, output, loops, nskip, ist, nsub>>
            [] c = "." ->
                 /\ output' = IF Unsuppressed(nskip) THEN Append(output, cell) ELSE output
                 /\ ip' = next
                 /\ UNCHANGED <<ptr, tape, input, loops, nskip, ist, nsub>>
            [] c = "[" ->
                 IF StackFull(Len(loops))
                 THEN /\ ist' = "terminated"
                      /\ ip' = next
                      /\ UNCHANGED <<ptr, tape, input, output, loops, nskip, nsub>>
                 ELSE /\ loops' = Append(loops, next)
                      /\ nskip' = InterpOpenSkip(cell, nskip)
                      /\ ip' = next
                      /\ UNCHANGED <<ptr, tape, input, output, ist, nsub>>
            [] c = "]" ->
                 IF Len(loops) = 0
                 THEN /\ ist' = "terminated"
                      /\ ip' = next
                      /\ UNCHANGED <<ptr, tape, input, output, loops, nskip, nsub>>
                 ELSE /\ ip' = InterpCloseIp(cell, loops[Len(loops)], next)
                      /\ loops' = InterpClosePop(cell, loops)
                      /\ nskip' = InterpCloseSkip(nskip)
                      /\ UNCHANGED <<ptr, tape, input, output, ist, nsub>>
            [] c = NUL ->
                 /\ ist' = "returned"
                 /\ ip' = next
                 /\ UNCHANGED <<ptr, tape, input, output, loops, nskip, nsub>>
            [] OTHER ->
                 /\ ip' = next
                 /\ UNCHANGED <<ptr, tape, input, output, loops, nskip, ist, nsub>>
  /\ strayed' = (strayed \/ ~InTape(ptr'))
  /\ skipFrom' = IF nskip' = 0 THEN NoSkip
                 ELSE IF nskip = 0
                 THEN [at |-> ip, depth |-> Len(loops), tape |-> tape,
                       ptr |-> ptr, input |-> input, output |-> output]
                 ELSE skipFrom
  /\ UNCHANGED <<inputVars, phase, jResult, jitVars, jst, cpuVars>>

\* ------------------------------------------------------------------ bytes

ByteAt(x, k) ==
  CASE k = 0 -> x % 256
    [] k = 1 -> (x \div 256) % 256
    [] k = 2 -> (x \div 65536) % 256
    [] k = 3 -> (x \div 16777216) % 256

\* _resolvePtrAddr: the eight bytes of a 64-bit address, low byte first.
ResolvePtrAddr(a) ==
  LET hi == (a \div 65536) \div 65536
  IN <<ByteAt(a, 0), ByteAt(a, 1), ByteAt(a, 2), ByteAt(a, 3),
       ByteAt(hi, 0), ByteAt(hi, 1), ByteAt(hi, 2), ByteAt(hi, 3)>>

\* _resolveAddrDiff(static_cast<uint32_t>(d)): the four bytes of d modulo
\* 2^32, low byte first.  For d < 0 the value 2^32 + d is the bitwise
\* complement of -d - 1.
ResolveAddrDiff(d) ==
  IF d >= 0
  THEN <<ByteAt(d, 0), ByteAt(d, 1), ByteAt(d, 2), ByteAt(d, 3)>>
  ELSE <<255 - ByteAt(-d - 1, 0), 255 - ByteAt(-d - 1, 1),
         255 - ByteAt(-d - 1, 2), 255 - ByteAt(-d - 1, 3)>>

\* static_cast<uint8_t>(n)
U8(n) == n % 256

\* ------------------------------------------------------------------ bfJITCompile

Prologue == <<72, 187>> \o ResolvePtrAddr(TapeBase)
PrologueLen == 10
Epilogue == <<88, 255, 224>>

AddCellCode(n) == <<128, 3, U8(n)>>          \* 80 03 ib     addb $n, (%rbx)
SubCellCode(n) == <<128, 43, U8(n)>>         \* 80 2b ib     subb $n, (%rbx)
AddPtrCode(n) == <<72, 131, 195, U8(n)>>     \* 48 83 c3 ib  add $n, %rbx
SubPtrCode(n) == <<72, 131, 235, U8(n)>>     \* 48 83 eb ib  sub $n, %rbx
ReadCode ==
  <<184, 3, 0, 0, 2,  191, 0, 0, 0, 0,  72, 137, 222,  186, 1, 0, 0, 0,  15, 5>>
WriteCode ==
  <<184, 4, 0, 0, 2,  191, 1, 0, 0, 0,  72, 137, 222,  186, 1, 0, 0, 0,  15, 5>>
OpenCode == <<128, 59, 0,  15, 132, 0, 0, 0, 0>>
CloseCode == <<128, 59, 0,  15, 133, 0, 0, 0, 0>>
\* eb ib, ib = static_cast<uint8_t>(n * 11 - 2)
SkipCode(n) == <<235, U8(n * 11 - 2)>>

RunCode(c, n) ==
  CASE c = "+" -> AddCellCode(n)
    [] c = "-" -> SubCellCode(n)
    [] c = ">" -> AddPtrCode(n)
    [] c = "<" -> SubPtrCode(n)

\* A backward displacement taken from the start of the jne's four
\* displacement bytes instead of from its end.
BackDiffFromOperand(back, size) == ResolveAddrDiff(back - (size - 4))

\* bDiff: jmpLocIndex.back() - machineCode.size()
BackDiff(back, size) == ResolveAddrDiff(back - size)
\* fDiff: machineCode.size() - jmpLocIndex.back()
FwdDiff(back, size) == ResolveAddrDiff(size - back)

\* erase + insert of four bytes ending at offset end
Patch4(code, end, b) ==
  [i \in 1..Len(code) |-> IF i > end - 4 /\ i <= end THEN b[i - (end - 4)] ELSE code[i]]

\* The two relocations of case ']', code being the buffer with CloseCode
\* appended and back the top of jmpLocIndex.
Relocate(code, back) ==
  Patch4(Patch4(code, Len(code), BackDiff(back, Len(code))),
         back, FwdDiff(back, Len(code)))

NoRun == [ch |-> "", n |-> 0, at |-> 0, end |-> 0]

\* One iteration of for (auto tok = program->cbegin(); tok != program->cend(); ++tok).
CompileStep ==
  /\ phase = "compile"
  /\ jst = "codegen"
  /\ tok <= Len(program)
  /\ \E t \in PastChoices(tok) :
       LET c == program[tok]
           isRun == c \in {"+", "-", "<", ">"}
           n == RunLen(t, tok, c)
           ahead == RunLen(t, tok + 1, "]")
           lastRead == IF isRun THEN tok + n
                       ELSE IF c = "]" /\ jmpLocIndex # <<>> THEN tok + 1 + ahead
                       ELSE tok
           size == Len(machineCode)
       IN
       /\ past' = IF lastRead > Len(program) THEN t ELSE past
       /\ CASE isRun ->
                 /\ machineCode' = machineCode \o RunCode(c, n)
                 /\ lastRun' = [ch |-> c, n |-> n, at |-> size,
                                end |-> size + Len(RunCode(c, n))]
                 /\ tok' = tok + n
                 \* the scan went through cend(): tok != cend() stays true
                 /\ jst' = IF tok + n > Len(program) + 1 THEN "overrun" ELSE jst
                 /\ UNCHANGED <<jmpLocIndex, emptyRead>>
            [] c = "," ->
                 /\ machineCode' = machineCode \o ReadCode
                 /\ tok' = tok + 1
                 /\ UNCHANGED <<jmpLocIndex, lastRun, emptyRead, jst>>
            [] c = "." ->
                 /\ machineCode' = machineCode \o WriteCode
                 /\ tok' = tok + 1
                 /\ UNCHANGED <<jmpLocIndex, lastRun, emptyRead, jst>>
            [] c = "[" ->
                 /\ machineCode' = machineCode \o OpenCode
                 /\ jmpLocIndex' = Append(jmpLocIndex, size + Len(OpenCode))
                 /\ tok' = tok + 1
                 /\ UNCHANGED <<lastRun, emptyRead, jst>>
            [] c = "]" ->
                 IF jmpLocIndex = <<>>
                 THEN \* jmpLocIndex.back() on an empty vector: a read before
                      \* the vector's storage, then erase() at an arbitrary place
                      /\ machineCode' = machineCode \o CloseCode
                      /\ emptyRead' = TRUE
                      /\ jst' \in {"segv", "wild"}
                      /\ tok' = tok
                      /\ UNCHANGED <<jmpLocIndex, lastRun>>
                 ELSE /\ machineCode' =
                           Relocate(machineCode \o CloseCode,
                                    jmpLocIndex[Len(jmpLocIndex)])
                           \o (IF ahead > 0 THEN SkipCode(ahead) ELSE <<>>)
                      /\ jmpLocIndex' = SubSeq(jmpLocIndex, 1, Len(jmpLocIndex) - 1)
                      /\ tok' = tok + 1
                      /\ UNCHANGED <<lastRun, emptyRead, jst>>
            [] OTHER ->
                 /\ tok' = tok + 1
                 /\ UNCHANGED <<machineCode, jmpLocIndex, lastRun, emptyRead, jst>>
       /\ tokAt' = (tok :> size) @@ tokAt
       /\ garbled' = \/ garbled
                     \/ isRun /\ tok + n - 1 > Len(program)
                     \/ c = "]" /\ jmpLocIndex # <<>> /\ tok + ahead > Len(program)
  /\ UNCHANGED <<inputVars, phase, tape, input, output, interpVars, jResult,
                 cpuVars, nsub>>

CeilDiv(a, b) == (a + b - 1) \div b
\* What mmap maps for the length setupExecutableMem asks for: the length
\* ceil(size / pageSize), rounded up to whole pages.
MapLen(size) == CeilDiv(CeilDiv(size, PageSize), PageSize) * PageSize

Unknown == -1

\* The end of bfJITCompile (the epilogue) and setupExecutableMem: map, copy,
\* push the return address, jump to the first byte.
CompileFinish ==
  /\ phase = "compile"
  /\ jst = "codegen"
  /\ tok = Len(program) + 1
  /\ machineCode' = machineCode \o Epilogue
  /\ past' = Unread
  /\ \E mapped \in BOOLEAN :
       IF ~mapped
       THEN \* mem == MAP_FAILED: std::exit(1)
            /\ jst' = "nomem"
            /\ UNCHANGED <<phase, cpuVars>>
       ELSE IF Len(machineCode') > MapLen(Len(machineCode'))
       THEN \* the copy loop writes past the mapped pages
            /\ jst' = "copyfault"
            /\ UNCHANGED <<phase, cpuVars>>
       ELSE /\ jst' = "running"
            /\ phase' = "exec"
            /\ rip' = 0
            /\ rbx' = Unknown
            /\ regs' = [rax |-> Unknown, rdi |-> Unknown, rsi |-> Unknown,
                        rdx |-> Unknown]
            /\ zf' = FALSE
            /\ hostStack' = <<RetAddr>>
            /\ nret' = 0
  /\ UNCHANGED <<inputVars, tape, input, output, interpVars, jResult, tok,
                 jmpLocIndex, tokAt, garbled, lastRun, emptyRead, nsub>>

\* ------------------------------------------------------------------ the processor

\* The byte at offset o of the mapped region: the copied buffer, then the
\* zeros of a fresh anonymous mapping.
CodeByte(o) == IF o >= 0 /\ o < Len(machineCode) THEN machineCode[o + 1] ELSE 0

\* An 8-bit immediate as the processor reads it in 48 83 /0 ib, 48 83 /5 ib
\* and eb cb: sign-extended.
Sext8(b) == IF b >= 128 THEN b - 256 ELSE b

\* The signed 32-bit displacement at offsets o..o+3, low byte first.
Rel32(o) ==
  LET b0 == CodeByte(o)
      b1 == CodeByte(o + 1)
      b2 == CodeByte(o + 2)
      b3 == CodeByte(o + 3)
  IN IF b3 >= 128
     THEN -(1 + (255 - b0) + (255 - b1) * 256 + (255 - b2) * 65536
              + (255 - b3) * 16777216)
     ELSE b0 + b1 * 256 + b2 * 65536 + b3 * 16777216

\* What the instruction add $ib, %rbx (sub $ib, %rbx) does to %rbx.
AddPtr(reg, ib) == reg + Sext8(ib)
SubPtr(reg, ib) == reg - Sext8(ib)

\* The length of the instruction at offset o, 0 when the bytes there are none
\* of the instructions bfJITCompile emits.
InstrLen(o) ==
  LET b0 == CodeByte(o)
      b1 == CodeByte(o + 1)
      b2 == CodeByte(o + 2)
  IN CASE b0 = 72 /\ b1 = 187 -> 10
       [] b0 = 72 /\ b1 = 131 /\ b2 \in {195, 235} -> 4
       [] b0 = 72 /\ b1 = 137 /\ b2 = 222 -> 3
       [] b0 = 128 /\ b1 \in {3, 43, 59} -> 3
       [] b0 \in {184, 191, 186} -> 5
       [] b0 = 15 /\ b1 = 5 -> 2
       [] b0 = 15 /\ b1 \in {132, 133} -> 6
       [] b0 = 235 -> 2
       [] b0 = 88 -> 1
       [] b0 = 255 /\ b1 = 224 -> 2
       [] OTHER -> 0

SYS_read == 33554435     \* 0x2000003
SYS_write == 33554436    \* 0x2000004

\* The machine before the instruction at rip, as a record; Exec gives the
\* machine after it.
Machine ==
  [rip |-> rip, rbx |-> rbx, regs |-> regs, zf |-> zf, stack |-> hostStack,
   tape |-> tape, input |-> input, output |-> output, st |-> jst,
   nret |-> nret, nsub |-> nsub]

Exec(m) ==
  LET o  == m.rip
      b0 == CodeByte(o)
      b1 == CodeByte(o + 1)
      b2 == CodeByte(o + 2)
      len == InstrLen(o)
      cur == m.rbx - TapeBase
      cell == Cell(m.tape, cur)
      fault == [m EXCEPT !.st = "fault"]
      oob == [m EXCEPT !.st = "oob"]
      imm32ok == CodeByte(o + 4) < 128
  IN
  IF o < 0 \/ len = 0 THEN fault
  ELSE
  CASE b0 = 72 /\ b1 = 187 ->
         \* 48 bb imm64: movabs $imm64, %rbx
         IF imm32ok /\ \A k \in 6..9 : CodeByte(o + k) = 0
         THEN [m EXCEPT !.rbx = Rel32(o + 2), !.rip = o + len]
         ELSE fault
    [] b0 = 72 /\ b1 = 131 /\ b2 = 195 ->
         LET r == AddPtr(m.rbx, CodeByte(o + 3))
         IN [m EXCEPT !.rbx = r, !.zf = (r = 0), !.rip = o + len]
    [] b0 = 72 /\ b1 = 131 /\ b2 = 235 ->
         LET r == SubPtr(m.rbx, CodeByte(o + 3))
         IN [m EXCEPT !.rbx = r, !.zf = (r = 0), !.rip = o + len]
    [] b0 = 72 /\ b1 = 137 /\ b2 = 222 ->
         \* 48 89 de: mov %rbx, %rsi
         [m EXCEPT !.regs.rsi = m.rbx, !.rip = o + len]
    [] b0 = 128 /\ b1 = 3 ->
         IF ~InTape(cur) THEN oob
         ELSE LET v == CellAdd(cell, b2)
              IN [m EXCEPT !.tape = SetCell(m.tape, cur, v), !.zf = (v = 0),
                           !.rip = o + len]
    [] b0 = 128 /\ b1 = 43 ->
         IF ~InTape(cur) THEN oob
         ELSE LET v == CellSub(cell, b2)
              IN [m EXCEPT !.tape = SetCell(m.tape, cur, v), !.zf = (v = 0),
                           !.nsub = Min(m.nsub + 1, CountCap), !.rip = o + len]
    [] b0 = 128 /\ b1 = 59 ->
         \* 80 3b ib: cmpb $ib, (%rbx)
         IF ~InTape(cur) THEN oob
         ELSE [m EXCEPT !.zf = (CellSub(cell, b2) = 0), !.rip = o + len]
    [] b0 = 184 ->
         IF imm32ok THEN [m EXCEPT !.regs.rax = Rel32(o + 1), !.rip = o + len]
         ELSE fault
    [] b0 = 191 ->
         IF imm32ok THEN [m EXCEPT !.regs.rdi = Rel32(o + 1), !.rip = o + len]
         ELSE fault
    [] b0 = 186 ->
         IF imm32ok THEN [m EXCEPT !.regs.rdx = Rel32(o + 1), !.rip = o + len]
         ELSE fault
    [] b0 = 15 /\ b1 = 5 ->
         \* 0f 05: syscall
         LET buf == m.regs.rsi - TapeBase
         IN IF m.regs.rdx # 1 \/ ~InTape(buf) THEN fault
            ELSE IF m.regs.rax = SYS_read /\ m.regs.rdi = 0
            THEN \* read(0, buf, 1): one byte, or 0 and nothing stored at end of input
                 IF m.input = <<>>
                 THEN [m EXCEPT !.regs.rax = 0, !.rip = o + len]
                 ELSE [m EXCEPT !.tape = SetCell(m.tape, buf, Head(m.input)),
                                !.input = Tail(m.input),
                                !.regs.rax = 1, !.rip = o + len]
            ELSE IF m.regs.rax = SYS_write /\ m.regs.rdi = 1
            THEN [m EXCEPT !.output = Append(m.output, Cell(m.tape, buf)),
                           !.regs.rax = 1, !.rip = o + len]
            ELSE fault
    [] b0 = 15 /\ b1 = 132 ->
         \* 0f 84 cd: je rel32
         [m EXCEPT !.rip = IF m.zf THEN o + len + Rel32(o + 2) ELSE o + len]
    [] b0 = 15 /\ b1 = 133 ->
         \* 0f 85 cd: jne rel32
         [m EXCEPT !.rip = IF ~m.zf THEN o + len + Rel32(o + 2) ELSE o + len]
    [] b0 = 235 ->
         \* eb cb: jmp rel8
         [m EXCEPT !.rip = o + len + Sext8(b1)]
    [] b0 = 88 ->
         \* 58: pop %rax
         IF m.stack = <<>> THEN fault
         ELSE [m EXCEPT !.regs.rax = Head(m.stack), !.stack = Tail(m.stack),
                        !.rip = o + len]
    [] b0 = 255 /\ b1 = 224 ->
         \* ff e0: jmpq *%rax
         IF m.regs.rax = RetAddr
         THEN [m EXCEPT !.st = "returned", !.nret = m.nret + 1]
         ELSE fault

\* The processor executes the instruction at rip.
ExecStep ==
  /\ phase = "exec"
  /\ jst = "running"
  /\ rip = 0 \/ Followed(rbx - TapeBase)
  /\ LET m == Exec(Machine)
     IN /\ rip' = m.rip
        /\ rbx' = m.rbx
        /\ regs' = m.regs
        /\ zf' = m.zf
        /\ hostStack' = m.stack
        /\ tape' = m.tape
        /\ input' = m.input
        /\ output' = m.output
        /\ jst' = m.st
        /\ nret' = m.nret
        /\ nsub' = m.nsub
  /\ UNCHANGED <<inputVars, past, phase, interpVars, jResult, jitVars>>

\* ------------------------------------------------------------------ runs

NoResult == [st |-> "idle", out |-> <<>>, tape |-> EmptyTape, cur |-> 0, nsub |-> 0]

\* The state bfRunJIT starts bfJITCompile's codegen loop in: a zeroed tape
\* and the prologue in the buffer.
Start(p, in) ==
  /\ program = p
  /\ stdin0 = in
  /\ past = Unread
  /\ phase = "compile"
  /\ tape = EmptyTape
  /\ input = in
  /\ output = <<>>
  /\ ip = 1
  /\ ptr = 0
  /\ loops = <<>>
  /\ nskip = 0
  /\ ist = "idle"
  /\ strayed = FALSE
  /\ skipFrom = NoSkip
  /\ jResult = NoResult
  /\ tok = 1
  /\ machineCode = Prologue
  /\ jmpLocIndex = <<>>
  /\ tokAt = <<>>
  /\ garbled = FALSE
  /\ lastRun = NoRun
  /\ emptyRead = FALSE
  /\ jst = "codegen"
  /\ rip = 0
  /\ rbx = Unknown
  /\ regs = [rax |-> Unknown, rdi |-> Unknown, rsi |-> Unknown, rdx |-> Unknown]
  /\ zf = FALSE
  /\ hostStack = <<>>
  /\ nret = 0
  /\ nsub = 0
  /\ round = 1
  /\ saved = <<>>

\* The --jit invocation is over: it returned, it failed, or it is no longer
\* followed.
JitOver ==
  \/ jst \in {"overrun", "segv", "wild", "copyfault", "returned", "fault", "oob"}
  \/ phase = "exec" /\ jst = "running" /\ rip # 0 /\ ~Followed(rbx - TapeBase)

\* bfRunDefault: the other invocation of the program, on a fresh bfState and
\* the same input.
StartInterp ==
  /\ phase \in {"compile", "exec"}
  /\ JitOver
  /\ phase' = "interp"
  /\ jResult' = [st |-> jst, out |-> output, tape |-> tape,
                 cur |-> rbx - TapeBase, nsub |-> nsub]
  /\ tape' = EmptyTape
  /\ input' = stdin0
  /\ output' = <<>>
  /\ past' = Unread
  /\ nsub' = 0
  /\ ip' = 1
  /\ ptr' = 0
  /\ loops' = <<>>
  /\ nskip' = 0
  /\ ist' = "running"
  /\ strayed' = FALSE
  /\ skipFrom' = NoSkip
  /\ UNCHANGED <<inputVars, jitVars, jst, cpuVars>>

Next == CompileStep \/ CompileFinish \/ ExecStep \/ StartInterp \/ InterpStep

\* Every program of at most MaxLen instruction characters, on short inputs.
SmallPrograms == SeqsUpTo(Instr, MaxLen)
SmallInputs == {<<>>, <<65>>, <<0, 200>>}

Init ==
  \E p \in SmallPrograms, in \in SmallInputs :
    /\ Start(p, in)
    /\ variant = p

Spec == Init /\ [][Next]_vars

\* ------------------------------------------------------------------ program families

\* Run lengths around the limits of a one-byte immediate.
RunLens == {1, 127, 128, 255, 256}
MaxItems == 2

RECURSIVE Flatten(_)
Flatten(ss) == IF ss = <<>> THEN <<>> ELSE Head(ss) \o Flatten(Tail(ss))

\* Programs made of at most MaxItems runs of + - < >.
RunItems == {Rep(c, n) : c \in {"+", "-", "<", ">"}, n \in RunLens}
RunPrograms == {Flatten(ss) : ss \in SeqsUpTo(RunItems, MaxItems)}

InitRuns ==
  \E p \in RunPrograms :
    /\ Start(p, <<>>)
    /\ variant = p

SpecRuns == InitRuns /\ [][Next]_vars

\* ------------------------------------------------------------------ properties

\* The nesting depth before position i: the [ not yet closed.
Depth(p, i) ==
  Cardinality({k \in 1..(i - 1) : p[k] = "["})
    - Cardinality({k \in 1..(i - 1) : p[k] = "]"})

Balanced(p) ==
  /\ Depth(p, Len(p) + 1) = 0
  /\ \A i \in 1..Len(p) : Depth(p, i + 1) >= 0

\* Both invocations have come to their normal end.
BothReturned == phase = "interp" /\ ist = "returned" /\ jResult.st = "returned"
\* The interpreted invocation found a zero byte right after the program.
Terminated == past = <<NUL>>

\* C1: for every bracket-balanced program and every input, the interpreted
\* run and the run of the generated code end with the same output bytes, the
\* same tape and the same cursor.  (Stated for the programs that keep the
\* interpreter's cursor on the tape and whose text is followed by a zero byte.)
C1_SameResult ==
  (BothReturned /\ Balanced(program) /\ Terminated /\ ~strayed)
    => /\ output = jResult.out
       /\ tape = jResult.tape
       /\ ptr = jResult.cur

\* C2: a ] without an earlier [ ends the run in a fatal termination in both
\* modes; neither mode reads an element of an empty stack.  (The interpreter
\* terminates at such a ]; stated here for the code generator: it never
\* evaluates back() on the empty relocation stack.)
C2_NoEmptyStackRead == ~emptyRead

\* The sum of the one-byte immediates of the add/sub instructions in the
\* buffer from offset o up to (not including) offset end.
RECURSIVE ImmSum(_, _)
ImmSum(o, end) ==
  IF o >= end \/ InstrLen(o) = 0 THEN 0
  ELSE (IF InstrLen(o) = 4 THEN CodeByte(o + 3) ELSE CodeByte(o + 2))
       + ImmSum(o + InstrLen(o), end)

\* C3: for a run of more than 255 identical + - < >, the instructions emitted
\* have immediates that add up to the run length.  (Stated for the runs of
\* < and >, where a count taken modulo 256 moves the cursor elsewhere.)
C3_LongRunSplit ==
  (lastRun.n > 255 /\ lastRun.ch \in {"<", ">"} /\ ~garbled)
    => ImmSum(lastRun.at, lastRun.end) = lastRun.n

\* The processor is about to execute add $ib, %rbx / sub $ib, %rbx.
AtAddPtr ==
  /\ phase = "exec" /\ jst = "running"
  /\ CodeByte(rip) = 72 /\ CodeByte(rip + 1) = 131 /\ CodeByte(rip + 2) = 195
AtSubPtr ==
  /\ phase = "exec" /\ jst = "running"
  /\ CodeByte(rip) = 72 /\ CodeByte(rip + 1) = 131 /\ CodeByte(rip + 2) = 235

\* C4: the instruction emitted for a run of n > (n <), 1 <= n <= 255, moves
\* the pointer register forward (backward) by exactly n cells.
C4_PtrShiftExact ==
  [][/\ (AtAddPtr /\ CodeByte(rip + 3) \in 1..255) => rbx' = rbx + CodeByte(rip + 3)
     /\ (AtSubPtr /\ CodeByte(rip + 3) \in 1..255) => rbx' = rbx - CodeByte(rip + 3)]_vars

\* ------------------------------------------------------------------ bracket programs

MaxBr == 6

\* [ ^ d ] ^ d
Nest(d) == Rep("[", d) \o Rep("]", d)

\* The balanced programs of at most MaxBr characters over [ ] . > , the
\* nests up to MaxNest deep, and some loops that run.
BracketPrograms ==
  {p \in SeqsUpTo({"[", "]", ".", ">"}, MaxBr) : Balanced(p)}
    \cup {Nest(d) : d \in 1..MaxNest}
    \cup {<<"+", "[", "-", "]">>,
          <<"+", "+", "[", ">", "+", "[", "-", "]", "<", "-", "]">>,
          <<"+", "[", "[", "[", "-", "]", "]", "]", ".">>}

InitBrackets ==
  \E p \in BracketPrograms :
    /\ Start(p, <<>>)
    /\ variant = p

SpecBrackets == InitBrackets /\ [][Next]_vars

\* bfJITCompile has left its codegen loop through tok == cend().
Compiled == jst \in {"running", "returned", "fault", "oob", "nomem", "copyfault"}

\* The ] that closes the [ at position i of a balanced program.
Match(p, i) ==
  CHOOSE j \in (i + 1)..Len(p) :
    /\ p[j] = "]"
    /\ Depth(p, j + 1) = Depth(p, i)
    /\ \A k \in (i + 1)..(j - 1) : Depth(p, k + 1) > Depth(p, i)

\* The offset just after the 9-byte compare-and-branch emitted for the
\* bracket at position i.
BranchEnd(i) == tokAt[i] + 9

\* C5 (1), (2), (4): once bfJITCompile has finished a balanced program, the
\* displacement of every [ leads from the end of its je to the byte after the
\* matching ]'s jne, the displacement of that ] leads from the end of its jne
\* to the byte after the ['s je, and the relocation stack is empty.
C5_Displacements ==
  (Compiled /\ Balanced(program)) =>
    /\ jmpLocIndex = <<>>
    /\ \A i \in 1..Len(program) :
         program[i] = "[" =>
           LET j == Match(program, i)
           IN /\ CodeByte(BranchEnd(i) - 6) = 15 /\ CodeByte(BranchEnd(i) - 5) = 132
              /\ CodeByte(BranchEnd(j) - 6) = 15 /\ CodeByte(BranchEnd(j) - 5) = 133
              /\ BranchEnd(i) + Rel32(BranchEnd(i) - 4) = BranchEnd(j)
              /\ BranchEnd(j) + Rel32(BranchEnd(j) - 4) = BranchEnd(i)

\* C5 (3): the case for ] changes, of the buffer with the new compare-and-
\* branch appended, only the four displacement bytes of that branch and the
\* four of the matching [; it leaves the length as it is.
C5_PatchFrame ==
  (phase = "compile" /\ jst = "codegen" /\ tok <= Len(program)
     /\ program[tok] = "]" /\ jmpLocIndex # <<>>) =>
    LET before == machineCode \o CloseCode
        back == jmpLocIndex[Len(jmpLocIndex)]
        after == SubSeq(machineCode', 1, Len(before))
    IN /\ Len(machineCode') \in {Len(before), Len(before) + 2}
       /\ \A k \in 1..Len(before) :
            after[k] # before[k] =>
              \/ (k > Len(before) - 4)
              \/ (k > back - 4 /\ k <= back)

\* C5: the relocation of every [ ] pair of a balanced program.
C5_Relocation == []C5_Displacements /\ [][C5_PatchFrame]_vars

\* A program nested three deep has been compiled, its innermost pair patched
\* with displacements other than zero.
C5_Witness ==
  /\ Compiled /\ Balanced(program)
  /\ \E i \in 1..Len(program) :
       /\ program[i] = "[" /\ Depth(program, i) = 2
       /\ Match(program, i) > i + 1
       /\ Rel32(BranchEnd(i) - 4) > 9
       /\ Rel32(BranchEnd(Match(program, i)) - 4) < -9

\* The offsets at which a decoding of the buffer from offset o finds
\* instructions, up to offset end.
RECURSIVE SweepStarts(_, _)
SweepStarts(o, end) ==
  IF o >= end \/ InstrLen(o) = 0 THEN {}
  ELSE {o} \cup SweepStarts(o + InstrLen(o), end)

InstrStarts == SweepStarts(0, Len(machineCode))

IsJcc(o) == CodeByte(o) = 15 /\ CodeByte(o + 1) \in {132, 133}
IsJmp8(o) == CodeByte(o) = 235
BranchTarget(o) ==
  IF IsJcc(o) THEN o + 6 + Rel32(o + 2) ELSE o + 2 + Sext8(CodeByte(o + 1))

\* C6: the buffer starts with the prologue and ends with the epilogue; every
\* branch of a balanced program's buffer targets the start of an emitted
\* instruction after the prologue and not after the epilogue's first byte;
\* a run that comes to its end has gone through the epilogue exactly once.
C6_BranchesStayInside ==
  (Compiled /\ Balanced(program) /\ ~garbled) =>
    /\ SubSeq(machineCode, 1, PrologueLen) = Prologue
    /\ SubSeq(machineCode, Len(machineCode) - 2, Len(machineCode)) = Epilogue
    /\ \A o \in InstrStarts :
         (IsJcc(o) \/ IsJmp8(o)) =>
           /\ BranchTarget(o) \in InstrStarts
           /\ BranchTarget(o) >= PrologueLen
           /\ BranchTarget(o) <= Len(machineCode) - 3
    /\ (jst = "returned" => nret = 1)

\* The program is k times + and then j times -, k and j in 1..255.
PlusCount == Cardinality({i \in 1..Len(program) : program[i] = "+"})
IsPlusMinus ==
  /\ PlusCount \in 1..255
  /\ Len(program) - PlusCount \in 1..255
  /\ \A i \in 1..Len(program) : program[i] = (IF i <= PlusCount THEN "+" ELSE "-")
PlusMinusTape ==
  SetCell(EmptyTape, 0, (PlusCount - (Len(program) - PlusCount) + 256) % 256)

\* C7: k times + and then j times -, from a zeroed tape, leave the cell at
\* (k - j) mod 256 and the cursor and the other cells as they were, in the
\* interpreter and in the generated code.
C7_PlusMinus ==
  IsPlusMinus =>
    /\ (phase = "interp" /\ ist = "returned") => (tape = PlusMinusTape /\ ptr = 0)
    /\ (jResult.st = "returned") => (jResult.tape = PlusMinusTape /\ jResult.cur = 0)

\* ------------------------------------------------------------------ the loop [-]

\* , [ - ] alone, and inside a loop that runs once.
LoopPrograms ==
  {<<",", "[", "-", "]">>,
   <<"+", "[", ">", ",", "[", "-", "]", "<", "-", "]">>}
Bytes == 0..255

InitLoop ==
  \E p \in LoopPrograms, v \in Bytes :
    /\ Start(p, <<v>>)
    /\ variant = p

SpecLoop == InitLoop /\ [][Next]_vars

\* The [ of the [-] in the program, and what precedes it.
LoopPos ==
  CHOOSE i \in 1..(Len(program) - 2) :
    program[i] = "[" /\ program[i + 1] = "-" /\ program[i + 2] = "]"
ShiftBefore(i) ==
  Cardinality({k \in 1..(i - 1) : program[k] = ">"})
    - Cardinality({k \in 1..(i - 1) : program[k] = "<"})

PastLoopI == phase = "interp" /\ ist = "running" /\ ip = LoopPos + 3
PastLoopJ == phase = "exec" /\ jst = "running" /\ rip = BranchEnd(LoopPos + 2)

InLoopI ==
  phase = "interp" /\ ist = "running" /\ ip \in {LoopPos + 1, LoopPos + 2}
InLoopJ ==
  /\ phase = "exec"
  /\ jst = "running"
  /\ rip > tokAt[LoopPos]
  /\ rip < BranchEnd(LoopPos + 2)

\* C8: for every v in 0..255 in the current cell, [-] runs its body v times
\* (inside the loop the cell and the number of times the body has run add up
\* to v, and the cursor stays) and then goes on after the ] with the cell at
\* 0, the cursor unchanged, the loop stack at the depth it had before the [
\* and the suppression depth at 0.
C8_ClearLoop ==
  /\ InLoopI =>
       /\ Cell(tape, ptr) + nsub = stdin0[1]
       /\ ptr = ShiftBefore(LoopPos)
       /\ Len(loops) = Depth(program, LoopPos) + 1
       /\ nskip = (IF stdin0[1] = 0 THEN 1 ELSE 0)
  /\ InLoopJ =>
       /\ Cell(tape, rbx - TapeBase) + nsub = stdin0[1]
       /\ rbx - TapeBase = ShiftBefore(LoopPos)
  /\ PastLoopI =>
       /\ nsub = stdin0[1]
       /\ Cell(tape, ptr) = 0
       /\ ptr = ShiftBefore(LoopPos)
       /\ Len(loops) = Depth(program, LoopPos)
       /\ nskip = 0
  /\ PastLoopJ =>
       /\ nsub = stdin0[1]
       /\ Cell(tape, rbx - TapeBase) = 0
       /\ rbx - TapeBase = ShiftBefore(LoopPos)

C8_Witness ==
  /\ PastLoopI
  /\ nsub = 255
  /\ Len(loops) = 1
  /\ jResult.st = "returned"
  /\ jResult.nsub >= 255

\* ------------------------------------------------------------------ two invocations

InterpOver ==
  \/ ist \in {"returned", "terminated", "oob"}
  \/ ist = "running" /\ ~Followed(ptr)

\* What the two runs of the first program came to.
FirstRound ==
  [jit |-> jResult, st |-> ist, out |-> output, tape |-> tape, cur |-> ptr,
   clean |-> (past = <<NUL>> /\ ~garbled /\ ~strayed)]

\* main again, on the file holding variant.
SecondRound ==
  /\ round = 1
  /\ phase = "interp"
  /\ InterpOver
  /\ saved' = <<FirstRound>>
  /\ round' = 2
  /\ program' = variant
  /\ past' = Unread
  /\ phase' = "compile"
  /\ tape' = EmptyTape
  /\ input' = stdin0
  /\ output' = <<>>
  /\ ip' = 1
  /\ ptr' = 0
  /\ loops' = <<>>
  /\ nskip' = 0
  /\ ist' = "idle"
  /\ strayed' = FALSE
  /\ skipFrom' = NoSkip
  /\ jResult' = NoResult
  /\ tok' = 1
  /\ machineCode' = Prologue
  /\ jmpLocIndex' = <<>>
  /\ tokAt' = <<>>
  /\ garbled' = FALSE
  /\ lastRun' = NoRun
  /\ emptyRead' = FALSE
  /\ jst' = "codegen"
  /\ rip' = 0
  /\ rbx' = Unknown
  /\ regs' = [rax |-> Unknown, rdi |-> Unknown, rsi |-> Unknown, rdx |-> Unknown]
  /\ zf' = FALSE
  /\ hostStack' = <<>>
  /\ nret' = 0
  /\ nsub' = 0
  /\ UNCHANGED <<stdin0, variant>>

NextPairs ==
  CompileStep \/ CompileFinish \/ ExecStep \/ StartInterp \/ InterpStep
    \/ SecondRound

\* p with the character c put in after its first k characters.
Insert(p, k, c) == SubSeq(p, 1, k) \o <<c>> \o SubSeq(p, k + 1, Len(p))
InsertAt(p) == IF Len(p) <= 8 THEN 0..Len(p) ELSE {0, Len(p) \div 2, Len(p)}

PairBase ==
  {Rep(c, n) : c \in {"+", ">"}, n \in {2, 128}}
    \cup {<<",", ".">>, <<"+", "[", "[", "-", "]", "]", ">">>}

\* main's f >> token: the characters of the file that are not whitespace.
NotSpace(c) == c # " "
Load(file) == SelectSeq(file, NotSpace)

InitPairs ==
  \E p \in PairBase, c \in {" ", "x"} :
    \E k \in InsertAt(p) :
      /\ Start(Load(p), <<65>>)
      /\ variant = Load(Insert(p, k, c))

SpecPairs == InitPairs /\ [][NextPairs]_vars

BothRoundsReturned ==
  /\ round = 2
  /\ BothReturned
  /\ saved[1].st = "returned"
  /\ saved[1].jit.st = "returned"

\* C9: a program and the program with a character that is no instruction
\* put in anywhere, also inside a run or between two ], give the same
\* output, final tape and cursor, in each mode.
C9_NoOpInsertion ==
  (BothRoundsReturned /\ saved[1].clean /\ Terminated /\ ~garbled /\ ~strayed) =>
    /\ output = saved[1].out
    /\ tape = saved[1].tape
    /\ ptr = saved[1].cur
    /\ jResult.out = saved[1].jit.out
    /\ jResult.tape = saved[1].jit.tape
    /\ jResult.cur = saved[1].jit.cur

\* ------------------------------------------------------------------ input and output

\* C10: the program ,. on a one-byte input b writes exactly b and comes to
\* its end, in both modes.
C10_Echo ==
  (program = <<",", ".">> /\ Len(stdin0) = 1) =>
    /\ (phase = "interp" /\ InterpOver) => (ist = "returned" /\ output = stdin0)
    /\ (jResult.st \in {"returned", "fault", "oob", "overrun"}) =>
         (jResult.st = "returned" /\ jResult.out = stdin0)

\* ------------------------------------------------------------------ adding two cells

\* + ^ a  >  + ^ b  [<+>-]<.
SumTail == <<"[", "<", "+", ">", "-", "]", "<", ".">>
SumProgram(a, b) == Rep("+", a) \o <<">">> \o Rep("+", b) \o SumTail
SumVals == {1, 2, 5, 128, 255}

InitSum ==
  \E a \in SumVals, b \in SumVals :
    /\ Start(SumProgram(a, b), <<>>)
    /\ variant = SumProgram(a, b)

SpecSum == InitSum /\ [][Next]_vars

\* a and b of the program at hand.
FirstShift == CHOOSE i \in 1..Len(program) :
                program[i] = ">" /\ \A k \in 1..(i - 1) : program[k] # ">"
SumA == FirstShift - 1
SumB == Len(program) - Len(SumTail) - FirstShift
IsSum ==
  /\ \E i \in 1..Len(program) : program[i] = ">"
  /\ SumA \in 1..255
  /\ SumB \in 1..255
  /\ program = SumProgram(SumA, SumB)
SumTape == SetCell(EmptyTape, 0, (SumA + SumB) % 256)

InterpEnded == phase = "interp" /\ ist \in {"returned", "terminated", "oob"}
JitEnded == jResult.st \in {"returned", "fault", "oob", "overrun", "segv", "wild"}

\* C11: the program + ^ a > + ^ b [<+>-]<. , a and b in 1..255, on a zeroed
\* tape and no input writes the one byte (a + b) mod 256, leaves that value
\* in cell 0, 0 in cell 1 and the cursor on cell 0, and comes to its end, in
\* the interpreter and in the generated code.
C11_Sum ==
  IsSum =>
    /\ InterpEnded =>
         /\ ist = "returned"
         /\ output = <<(SumA + SumB) % 256>>
         /\ tape = SumTape
         /\ ptr = 0
    /\ JitEnded =>
         /\ jResult.st = "returned"
         /\ jResult.out = <<(SumA + SumB) % 256>>
         /\ jResult.tape = SumTape
         /\ jResult.cur = 0

\* ------------------------------------------------------------------ deep nests

NestTop == 101

\* Nests around MAX_NESTING deep that are skipped, nests that are entered,
\* and MAX_NESTING times [ with whatever follows the vector.
DeepPrograms ==
  {Nest(d) : d \in (NestTop - 2)..NestTop}
    \cup {<<"+">> \o Rep("[", d) \o <<"-">> \o Rep("]", d) :
            d \in (NestTop - 2)..NestTop}
    \cup {Rep("[", MAX_NESTING)}

InitDeep ==
  \E p \in DeepPrograms :
    /\ Start(p, <<>>)
    /\ variant = p

SpecDeep == InitDeep /\ [][Next]_vars

\* The characters bfInterpret has been given: the program and what it has
\* found after it.
Text == IF past = Unread THEN program ELSE program \o past

\* C12, the states: the loop stack holds at most MAX_NESTING entries, and a
\* run that the [ at ip - 1 ended was MAX_NESTING deep in the text before it.
C12_StackWithin ==
  phase = "interp" =>
    /\ Len(loops) <= MAX_NESTING
    /\ (ist = "terminated" /\ Mem(past, ip - 1) = "[") =>
         Depth(Text, ip - 1) = MAX_NESTING

\* C12, the step: a [ reached with MAX_NESTING entries on the stack,
\* suppressed or not, ends the run with nothing pushed.
C12_FullStep ==
  (/\ phase = "interp" /\ ist = "running" /\ phase' = "interp"
   /\ Len(loops) = MAX_NESTING
   /\ Mem(past', ip) = "[")
    => (ist' = "terminated" /\ loops' = loops)

\* C12: in bfInterpret the loop stack never holds more than MAX_NESTING
\* entries; a [ reached with MAX_NESTING entries on it ends the run fatally
\* before anything is pushed; and the run is ended so only where the text
\* bfInterpret reads nests deeper than MAX_NESTING.
C12_StackBound == []C12_StackWithin /\ [][C12_FullStep]_vars

C12_Witness ==
  /\ phase = "interp"
  /\ ist = "terminated"
  /\ Len(loops) = MAX_NESTING
  /\ nskip = 0
  /\ program[ip - 1] = "["

\* ------------------------------------------------------------------ buffers of more than a page

\* The number of , whose code, with the prologue and the epilogue, no longer
\* fits PageSize bytes: 10 + 20 * 205 + 3 = 4113.
PageFill == 205

PagePrograms == {Rep(c, n) : c \in {",", "."}, n \in {1, PageFill - 1, PageFill}}

InitPages ==
  \E p \in PagePrograms :
    /\ Start(p, <<>>)
    /\ variant = p

SpecPages == InitPages /\ [][Next]_vars

\* C13: the region setupExecutableMem obtains (the length it asks for,
\* rounded up to whole pages) holds at least as many bytes as the buffer it
\* copies in, also for a buffer of more than one page.
C13_RegionHoldsBuffer ==
  (Compiled /\ jst # "nomem") => MapLen(Len(machineCode)) >= Len(machineCode)

\* ------------------------------------------------------------------ the short jump after ]

\* The number of ] that follow the ] at position i in the program.
Trailing(i) == RunLen(<<NUL>>, i + 1, "]")

\* C14: the short jump emitted after the compare-and-branch of a ] that n >= 1
\* further ] follow has the one signed byte n*11 - 2 as displacement and
\* goes forward, to the first byte after the compare-and-branch of the last
\* of these n closers.
C14_SkipLands ==
  (Compiled /\ Balanced(program) /\ ~garbled) =>
    \A i \in 1..Len(program) :
      (program[i] = "]" /\ Trailing(i) >= 1) =>
        /\ CodeByte(BranchEnd(i)) = 235
        /\ Sext8(CodeByte(BranchEnd(i) + 1)) = Trailing(i) * 11 - 2
        /\ BranchEnd(i) + 2 + Sext8(CodeByte(BranchEnd(i) + 1))
             = BranchEnd(i + Trailing(i))

\* ------------------------------------------------------------------ suppressed steps

\* C15: a step bfInterpret takes while the suppression depth is over 0
\* leaves the tape, the cursor, the input and the output as they are.
C15_SuppressedFrame ==
  [][(/\ phase = "interp" /\ ist = "running" /\ phase' = "interp"
      /\ nskip > 0)
       => UNCHANGED <<tape, ptr, input, output>>]_vars

\* The , of [,] has been passed over with a byte waiting in the input.
C15_Witness ==
  /\ phase = "interp"
  /\ program = <<"[", ",", "]">>
  /\ ip = 3
  /\ nskip = 1
  /\ input = <<65>>

\* ------------------------------------------------------------------ skipped loops

MaxSkipLen == 5

\* Loops nested three and four deep that are skipped, from an empty loop
\* stack and from inside a loop that runs, and skipped bodies of one
\* instruction.
NestedSkips ==
  {<<"[", "+", "]">>, <<"[", "-", "]">>, <<"[", ">", "]">>, <<"[", "<", "]">>,
   <<"[", "[", "[", "+", "]", "]", "]", ".">>,
   <<"[", "[", "[", ",", "]", "]", "[", ".", "]", "]", ">", "+">>,
   <<"[", "[", "[", "[", "+", "]", "]", "]", "]">>,
   <<"[", "[", "]", "+", "[", ".", "[", ",", "]", "]", "]", "-">>,
   <<"+", "[", ">", "[", "[", "[", "-", ".", "]", "]", "]", "<", "-", "]">>,
   <<"+", "[", "[", ">", "[", "[", "[", ",", "]", "]", "+", "]", "<", "-",
     "]", "]", ".">>}

\* These, and the balanced programs of at most MaxSkipLen characters over
\* [ ] . ,
SkipPrograms ==
  {p \in SeqsUpTo({"[", "]", ".", ","}, MaxSkipLen) : Balanced(p)}
    \cup NestedSkips

InitSkip ==
  \E p \in SkipPrograms, in \in {<<>>, <<65>>} :
    /\ Start(p, in)
    /\ variant = p

SpecSkip == InitSkip /\ [][Next]_vars

\* The [ at position i of p has its ] in p.
Matched(p, i) ==
  \E j \in (i + 1)..Len(p) :
    /\ p[j] = "]"
    /\ Depth(p, j + 1) = Depth(p, i)
    /\ \A k \in (i + 1)..(j - 1) : Depth(p, k + 1) > Depth(p, i)

Skipping ==
  /\ phase = "interp"
  /\ ist = "running"
  /\ nskip > 0
  /\ Matched(program, skipFrom.at)

SameAsAt(s, t, c, in, out) ==
  /\ t = s.tape
  /\ c = s.ptr
  /\ in = s.input
  /\ out = s.output

\* C16, inside the body: the suppression depth is the nesting depth within
\* the loop, so it is over 0 up to the matching ]; the loop stack has grown
\* by as much; nothing of the body has been executed.
C16_InBody ==
  Skipping =>
    /\ ip > skipFrom.at
    /\ ip <= Match(program, skipFrom.at)
    /\ nskip = Depth(program, ip) - Depth(program, skipFrom.at)
    /\ Len(loops) = skipFrom.depth + nskip
    /\ SameAsAt(skipFrom, tape, ptr, input, output)

\* C16, leaving: the step for the matching ] brings the suppression depth to
\* 0 and the loop stack to its depth before the [, and goes on with the next
\* character; the suppression depth comes to 0 at no other step.
C16_Leaves ==
  /\ (Skipping /\ phase' = "interp" /\ ip = Match(program, skipFrom.at)) =>
       /\ nskip' = 0
       /\ Len(loops') = skipFrom.depth
       /\ ip' = ip + 1
       /\ ist' = "running"
       /\ SameAsAt(skipFrom, tape', ptr', input', output')
  /\ (Skipping /\ phase' = "interp" /\ nskip' = 0) =>
       ip = Match(program, skipFrom.at)

\* C16: a [ that bfInterpret reaches unsuppressed on a cell that is 0, with
\* a balanced body of loops nested to any depth: at the step for its
\* matching ] the suppression depth is 0 again and the loop stack as deep as
\* before the [, nothing of the body has been executed, the run goes on
\* unsuppressed after that ], and the suppression depth is 0 at no earlier ].
C16_SkippedLoop == []C16_InBody /\ [][C16_Leaves]_vars

\* Past the triply nested loops skipped inside the loop that runs, before
\* the < of + [ > [[[-.]]] < - ].
C16_Witness ==
  /\ phase = "interp"
  /\ ist = "running"
  /\ program = <<"+", "[", ">", "[", "[", "[", "-", ".", "]", "]", "]", "<", "-", "]">>
  /\ ip = 12
  /\ nskip = 0
  /\ Len(loops) = 1
  /\ output = <<>>

\* ------------------------------------------------------------------ the step for ]

\* bfInterpret is about to take the case for ] with entries on the loop
\* stack and the cursor inside the tape.
ClosingStep ==
  /\ phase = "interp"
  /\ ist = "running"
  /\ phase' = "interp"
  /\ Mem(past', ip) = "]"
  /\ loops # <<>>
  /\ InTape(ptr)

\* C17: a ] step with a non-empty loop stack does one of two things: on a
\* cell that is not 0 the instruction pointer becomes the position on top of
\* the loop stack, the character right after the matching [, and the stack
\* stays; on a cell that is 0 the top entry is popped and the instruction
\* pointer goes to the character after the ]. Tape and cursor stay.
C17_CloseStep ==
  [][ClosingStep =>
       /\ tape' = tape
       /\ ptr' = ptr
       /\ ip <= Len(program) =>
            /\ program[loops[Len(loops)] - 1] = "["
            /\ Matched(program, loops[Len(loops)] - 1)
            /\ Match(program, loops[Len(loops)] - 1) = ip
       /\ IF Cell(tape, ptr) # 0
          THEN ip' = loops[Len(loops)] /\ loops' = loops
          ELSE /\ ip' = ip + 1
               /\ loops' = SubSeq(loops, 1, Len(loops) - 1)]_vars

\* The outer loop of ++[>+[-]<-] has gone back to its body once.
C17_Witness ==
  /\ phase = "interp"
  /\ program = <<"+", "+", "[", ">", "+", "[", "-", "]", "<", "-", "]">>
  /\ ip = 4
  /\ ptr = 0
  /\ Cell(tape, 0) = 1
  /\ loops = <<4>>

\* ------------------------------------------------------------------ the two depths

\* The deep nests and the skipped loops together.
DepthPrograms == DeepPrograms \cup NestedSkips

InitDepths ==
  \E p \in DepthPrograms :
    /\ Start(p, <<>>)
    /\ variant = p

SpecDepths == InitDepths /\ [][Next]_vars

\* C18: in every state of a run of bfInterpret on a balanced program,
\* 0 <= suppression depth <= loop-stack depth <= MAX_NESTING, and with the
\* suppression depth over 0 the cell under the cursor is 0.
C18_Depths ==
  (phase = "interp" /\ Balanced(program)) =>
    /\ 0 <= nskip
    /\ nskip <= Len(loops)
    /\ Len(loops) <= MAX_NESTING
    /\ (nskip > 0 => Cell(tape, ptr) = 0)

\* MAX_NESTING skipped loops deep in a balanced program.
C18_Witness ==
  /\ phase = "interp"
  /\ Balanced(program)
  /\ nskip = MAX_NESTING
  /\ Len(loops) = MAX_NESTING

\* ------------------------------------------------------------------ reads past the program

\* C19: neither bfJITCompile (its run scans and the look-ahead after ]) nor
\* bfInterpret started from main reads a position at or past the end of the
\* loaded program.
C19_NoReadPastEnd == past = Unread

====
